---- MODULE Spec2Model ----
(***************************************************************************)
(* Leave balance ledger and leave request lifecycle of the leave           *)
(* management service: service.CreateLeaveRequest, the repository          *)
(* transactions CreateLeaveRequest and UpdateLeaveRequest, and the GORM     *)
(* hooks of domain.LeaveRequest.                                            *)
(*                                                                         *)
(* Every repository method runs in its own database transaction            *)
(* (r.db.Transaction) at the database's default isolation level, read      *)
(* committed: a read sees the rows committed so far, nothing is locked by  *)
(* a read (the code issues no SELECT ... FOR UPDATE), and the writes of a  *)
(* transaction become visible together when it commits.  Several           *)
(* transactions are in flight at once, one per slot of tx.                 *)
(***************************************************************************)
EXTENDS Integers, Sequences, FiniteSets, TLC

\* ------------------------------------------------------------------ bounds
\* Dates are day numbers 0..MaxDate; day 0 is Thursday 31 December 2026.
MaxDate == 2
\* Rows the leave_requests table can hold.
MaxRequests == 2
\* Repository transactions begun over the run (creates plus updates).
MaxCalls == 3

\* ---------------------------------------------------------------- constants
Nil == "nil"

Employees == {"e1", "e2"}
LeaveTypeIds == {"lt1"}
Organizations == {"o1", "o2"}
Approvers == {"boss"}

LeaveStatusPending == "pending"
LeaveStatusApproved == "approved"
LeaveStatusRejected == "rejected"
LeaveStatusCancelled == "cancelled"
Statuses ==
  {LeaveStatusPending, LeaveStatusApproved, LeaveStatusRejected, LeaveStatusCancelled}

Dates == 0..MaxDate
RequestIds == 1..MaxRequests
\* The connections a transaction can run on: two callers at a time.
TxIds == {"t1", "t2"}

\* time.Weekday numbering: time.Sunday = 0 ... time.Saturday = 6.
Sunday == 0
Saturday == 6
Weekday(d) == (d + 4) % 7
\* time.Time.Year(): day 0 is 31 December 2026, day 1 is 1 January 2027.
Year(d) == IF d <= 0 THEN 2026 ELSE 2027
Years == {Year(d) : d \in Dates}

\* The leave_types table: organization and max_days_per_request of each type.
LeaveTypeOrg(lt) == "o1"
MaxDaysPerRequest(lt) == 1

\* Ledger key (employee_id, leave_type_id, year).
Keys == Employees \X LeaveTypeIds \X Years
\* Days granted by the rows that exist when the service starts.
InitialTotalDays == 3
\* Ledger rows that exist when the service starts: the first employee has a row
\* for the first year; no row exists for the later years or the other employees.
InitialKeys == {k \in Keys : k[1] = "e1" /\ k[3] = Year(0)}

VARIABLES
  balances,   \* leave_balances: Keys -> row, NoBalance where there is none (committed state)
  requests,   \* leave_requests: RequestIds -> row, NoRequest where there is none (committed state)
  tx,         \* the transactions in flight, one per slot
  outcome,    \* the result returned by the call that finished last
  interleaved, \* TRUE once a transaction has taken a step while another was in flight
  calls,      \* repository transactions begun so far, by method
  history,    \* leave_request_history: RequestIds -> number of rows of that request
  now,        \* time.Now(), as a day number
  adjustments, \* leave_balance_adjustments: AdjustmentIds -> row (committed state)
  atx,        \* the adjustment transactions in flight, one per slot
  probe,      \* the last call of a read-only or single-step operation and its result
  leaveTypes, \* leave_types: the ids of the rows the table holds (committed state)
  del         \* the DeleteLeaveType call in flight

\* The tables and the clock that the leave request transactions neither read
\* nor write.
others == <<history, now, adjustments, atx, probe, leaveTypes, del>>

vars == <<balances, requests, tx, outcome, interleaved, calls,
          history, now, adjustments, atx, probe, leaveTypes, del>>

\* ------------------------------------------------------------------ domain
\* domain.calculateWorkingDays: walks current from start to end inclusive and
\* counts the days that are neither Saturday nor Sunday.
RECURSIVE WorkingDaysLoop(_, _)
WorkingDaysLoop(current, end) ==
  IF current <= end
    THEN (IF Weekday(current) # Saturday /\ Weekday(current) # Sunday THEN 1 ELSE 0)
         + WorkingDaysLoop(current + 1, end)
    ELSE 0

\* Variant: the end date is not counted.
calculateWorkingDaysExclusiveEnd(start, end) == WorkingDaysLoop(start, end - 1)

calculateWorkingDays(start, end) == WorkingDaysLoop(start, end)

\* LeaveRequest.BeforeCreate: the error it returns, or Nil.
BeforeCreateError(start, end) ==
  IF start > end THEN "start date must be before end date" ELSE Nil

\* Variant: the hook accepts every request.
BeforeUpdateNoCheck(req) == Nil

\* LeaveRequest.BeforeUpdate: the error it returns, or Nil.
BeforeUpdateError(req) ==
  IF req.Status = LeaveStatusApproved /\ req.ApprovedBy = Nil
    THEN "approved_by is required when status is approved"
    ELSE Nil

\* LeaveRequest.CanCancel / CanApprove (defined by the domain, called by no one).
CanApprove(req) == req.Status = LeaveStatusPending

\* ------------------------------------------------------------------ helpers
BalanceKey(req) == <<req.EmployeeID, req.LeaveTypeID, Year(req.StartDate)>>

NoRequest ==
  [EmployeeID |-> Nil, LeaveTypeID |-> Nil, StartDate |-> 0, EndDate |-> 0,
   Days |-> 0, Status |-> Nil, ApprovedBy |-> Nil, OrganizationID |-> Nil]
NoBalance ==
  [exists |-> FALSE, TotalDays |-> 0, UsedDays |-> 0, PendingDays |-> 0,
   RemainingDays |-> 0]

\* The committed row of a key or an id, if there is one.
HasBalance(k) == balances[k].exists
HasRequest(i) == requests[i].Status # Nil

IdleTx ==
  [pc |-> "idle", id |-> 0, req |-> NoRequest, oldStatus |-> Nil, bal |-> NoBalance]

Active(t) == tx[t].pc # "idle"
OthersActive(t) == \E u \in TxIds \ {t} : Active(u)

\* gen_random_uuid(): an id no committed row and no transaction in flight uses.
FreeIds ==
  {i \in RequestIds : ~HasRequest(i) /\ \A t \in TxIds : tx[t].id # i \/ ~Active(t)}

Finish(t, op, result) ==
  /\ tx' = [tx EXCEPT ![t] = IdleTx]
  /\ outcome' = [op |-> op, result |-> result]

\* A step of a transaction already begun.
Step(t) ==
  /\ interleaved' = (interleaved \/ OthersActive(t))
  /\ calls' = calls
  /\ UNCHANGED others

\* The connection the pool hands out: connections are interchangeable, the pool
\* hands out the first idle one.
FirstIdle == IF ~Active("t1") THEN "t1" ELSE "t2"

\* The first step of a transaction of method op.
Begin(t, op) ==
  /\ ~Active(t)
  /\ t = FirstIdle
  /\ calls.create + calls.update < MaxCalls
  /\ interleaved' = (interleaved \/ OthersActive(t))
  /\ calls' = [calls EXCEPT ![op] = @ + 1]
  /\ UNCHANGED others

\* Rows the leave_balance_adjustments table can hold.
MaxAdjustments == 2
AdjustmentIds == 1..MaxAdjustments

AdjustmentStatusPending == "pending"
AdjustmentStatusApproved == "approved"
AdjustmentStatusRejected == "rejected"
AdjustmentStatuses ==
  {AdjustmentStatusPending, AdjustmentStatusApproved, AdjustmentStatusRejected}

\* The id of no ledger row (ledger rows are identified by their key).
NoKey == <<Nil, Nil, 0>>
NoAdjustment == [LeaveBalanceID |-> NoKey, Adjustment |-> 0, Status |-> Nil]
IdleAtx ==
  [pc |-> "idle", id |-> 0, adj |-> NoAdjustment, oldStatus |-> Nil, bal |-> NoBalance]
NoProbe == [op |-> "none", args |-> <<>>, result |-> Nil]

\* The ledger rows that exist when the service starts.
InitBalances ==
  balances = [k \in Keys |->
    IF k \in InitialKeys
      THEN [exists |-> TRUE, TotalDays |-> InitialTotalDays,
            UsedDays |-> 0, PendingDays |-> 0, RemainingDays |-> InitialTotalDays]
      ELSE NoBalance]

\* No call has been made and no transaction is in flight.
InitCalls ==
  /\ tx = [t \in TxIds |-> IdleTx]
  /\ outcome = [op |-> "none", result |-> "none"]
  /\ interleaved = FALSE
  /\ calls = [create |-> 0, update |-> 0]
  /\ atx = [t \in TxIds |-> IdleAtx]

\* No DeleteLeaveType call is in flight.
IdleDelete == [pc |-> "idle", org |-> Nil, id |-> Nil]

\* The other tables are empty, every leave type is stored; the clock stands at
\* day 0.
InitOthers ==
  /\ history = [i \in RequestIds |-> 0]
  /\ now = 0
  /\ adjustments = [a \in AdjustmentIds |-> NoAdjustment]
  /\ leaveTypes = LeaveTypeIds
  /\ del = IdleDelete

Init ==
  /\ InitBalances
  /\ requests = [i \in RequestIds |-> NoRequest]
  /\ InitCalls
  /\ InitOthers
  /\ probe = NoProbe


\* ----------------------------------------------------- service.CreateLeaveRequest
\* Variant: the organization of the leave type is not compared with orgID.
GetLeaveTypeErrorNoOwnership(org, lt) ==
  IF lt \notin LeaveTypeIds THEN "record not found" ELSE Nil

\* GetLeaveType of the service: the leave type must exist and belong to orgID.
GetLeaveTypeError(org, lt) ==
  IF lt \notin LeaveTypeIds THEN "record not found"
  ELSE IF LeaveTypeOrg(lt) # org THEN "leave type not found in organization"
  ELSE Nil

\* Variant: neither the service nor the BeforeCreate hook compares the dates.
CreateErrorNoRangeCheck(org, emp, lt, start, end) ==
  IF emp = Nil THEN "employee ID is required"
  ELSE IF lt = Nil THEN "leave type ID is required"
  ELSE IF GetLeaveTypeError(org, lt) # Nil THEN GetLeaveTypeError(org, lt)
  ELSE IF end - start > MaxDaysPerRequest(lt) THEN "total days exceed maximum allowed"
  ELSE Nil

\* Variant: the service refuses a range that shares a day with a pending or
\* approved request of the employee.
CreateErrorOverlapRefused(org, emp, lt, start, end) ==
  IF emp = Nil THEN "employee ID is required"
  ELSE IF lt = Nil THEN "leave type ID is required"
  ELSE IF start > end THEN "start date cannot be after end date"
  ELSE IF GetLeaveTypeError(org, lt) # Nil THEN GetLeaveTypeError(org, lt)
  ELSE IF end - start > MaxDaysPerRequest(lt) THEN "total days exceed maximum allowed"
  ELSE IF \E i \in RequestIds :
            /\ HasRequest(i)
            /\ requests[i].EmployeeID = emp
            /\ requests[i].Status \in {LeaveStatusPending, LeaveStatusApproved}
            /\ requests[i].StartDate <= end
            /\ requests[i].EndDate >= start
    THEN "overlapping leave request"
  ELSE BeforeCreateError(start, end)

\* The error returned before the repository transaction stores anything, or Nil:
\* the service's validations in their order, then the BeforeCreate hook that
\* tx.Create runs.
CreateError(org, emp, lt, start, end) ==
  IF emp = Nil THEN "employee ID is required"
  ELSE IF lt = Nil THEN "leave type ID is required"
  ELSE IF start > end THEN "start date cannot be after end date"
  ELSE IF GetLeaveTypeError(org, lt) # Nil THEN GetLeaveTypeError(org, lt)
  ELSE IF end - start > MaxDaysPerRequest(lt) THEN "total days exceed maximum allowed"
  ELSE BeforeCreateError(start, end)

\* The row tx.Create inserts: the fields the service sets, Days from BeforeCreate.
NewLeaveRequest(emp, lt, start, end) ==
  [EmployeeID |-> emp, LeaveTypeID |-> lt, StartDate |-> start, EndDate |-> end,
   Days |-> calculateWorkingDays(start, end), Status |-> LeaveStatusPending,
   ApprovedBy |-> Nil, OrganizationID |-> Nil]

\* What a caller can pass to the service.
CreateInputs ==
  Organizations \X (Employees \cup {Nil}) \X (LeaveTypeIds \cup {Nil, "ltX"})
    \X Dates \X Dates

\* The inputs the service accepts.
AcceptedCreateInputs ==
  {in \in CreateInputs : CreateError(in[1], in[2], in[3], in[4], in[5]) = Nil}

\* The errors the service returns for the inputs it refuses.
CreateErrors ==
  {CreateError(in[1], in[2], in[3], in[4], in[5]) : in \in CreateInputs} \ {Nil}

\* The call is refused with one of these errors before anything is written.
CreateLeaveRequestRejected ==
  /\ CreateErrors # {}
  /\ outcome' = [op |-> "create", result |-> "invalid request"]
  /\ UNCHANGED <<balances, requests, tx, interleaved, calls>>
  /\ UNCHANGED others

\* The service's checks pass; the repository transaction begins and inserts the
\* request row (uncommitted, visible to this transaction only).
CreateLeaveRequestInsert(t, org, emp, lt, start, end) ==
  /\ Begin(t, "create")
  /\ CreateError(org, emp, lt, start, end) = Nil
  /\ FreeIds # {}
  /\ LET id == CHOOSE i \in FreeIds : \A j \in FreeIds : i <= j
     IN tx' = [tx EXCEPT ![t] =
          [pc |-> "created", id |-> id, req |-> NewLeaveRequest(emp, lt, start, end),
           oldStatus |-> Nil, bal |-> NoBalance]]
  /\ UNCHANGED <<balances, requests, outcome>>

\* tx.Where(employee, leave type, year of start date).First(balance)
CreateReadBalance(t) ==
  /\ tx[t].pc = "created"
  /\ HasBalance(BalanceKey(tx[t].req))
  /\ tx' = [tx EXCEPT ![t].pc = "balanceRead", ![t].bal = balances[BalanceKey(tx[t].req)]]
  /\ Step(t)
  /\ UNCHANGED <<balances, requests, outcome>>

\* Variant: the request row was inserted outside the transaction and stays.
CreateBalanceNotFoundKeepsInsert(t) ==
  /\ tx[t].pc = "created"
  /\ ~HasBalance(BalanceKey(tx[t].req))
  /\ requests' = [requests EXCEPT ![tx[t].id] = tx[t].req]
  /\ Finish(t, "create", "record not found")
  /\ Step(t)
  /\ UNCHANGED balances

\* First finds no row: the transaction returns the error and rolls back.
CreateBalanceNotFound(t) ==
  /\ tx[t].pc = "created"
  /\ ~HasBalance(BalanceKey(tx[t].req))
  /\ Finish(t, "create", "record not found")
  /\ Step(t)
  /\ UNCHANGED <<balances, requests>>

\* balance.PendingDays += request.Days.  The struct's RemainingDays keeps the
\* value that was read: no code assigns it.
ReservedBalance(bal, req) == [bal EXCEPT !.PendingDays = @ + req.Days]

\* Variant: a reservation that would take pending_days + used_days above
\* total_days is refused.
CreateCommitWithinTotal(t) ==
  /\ tx[t].pc = "balanceRead"
  /\ IF tx[t].bal.UsedDays + tx[t].bal.PendingDays + tx[t].req.Days > tx[t].bal.TotalDays
       THEN /\ Finish(t, "create", "insufficient balance")
            /\ UNCHANGED <<balances, requests>>
       ELSE /\ balances' = [balances EXCEPT ![BalanceKey(tx[t].req)] =
                              ReservedBalance(tx[t].bal, tx[t].req)]
            /\ requests' = [requests EXCEPT ![tx[t].id] = tx[t].req]
            /\ Finish(t, "create", "ok")
  /\ Step(t)

\* Variant: the reservation is written to the rows of every year of the
\* employee and leave type.
CreateCommitEveryYear(t) ==
  /\ tx[t].pc = "balanceRead"
  /\ balances' = [k \in Keys |->
       IF /\ k[1] = tx[t].req.EmployeeID
          /\ k[2] = tx[t].req.LeaveTypeID
          /\ balances[k].exists
         THEN ReservedBalance(balances[k], tx[t].req)
         ELSE balances[k]]
  /\ requests' = [requests EXCEPT ![tx[t].id] = tx[t].req]
  /\ Finish(t, "create", "ok")
  /\ Step(t)

\* tx.Save(balance) succeeds and the transaction commits: the whole balance row
\* is written from the transaction's copy, and the inserted request row appears.
CreateCommit(t) ==
  /\ tx[t].pc = "balanceRead"
  /\ balances' = [balances EXCEPT ![BalanceKey(tx[t].req)] =
                    ReservedBalance(tx[t].bal, tx[t].req)]
  /\ requests' = [requests EXCEPT ![tx[t].id] = tx[t].req]
  /\ Finish(t, "create", "ok")
  /\ Step(t)

\* tx.Save(balance) fails: the transaction rolls back.  Save writes every
\* column of the row, remaining_days included; a database whose remaining_days
\* is the generated column of migrations/000001 refuses every such write, a
\* database whose column is plain accepts it.
CreateSaveFails(t) ==
  /\ tx[t].pc = "balanceRead"
  /\ Finish(t, "create", "save failed")
  /\ Step(t)
  /\ UNCHANGED <<balances, requests>>

\* ------------------------------------------------ repository.UpdateLeaveRequest
\* The struct the caller passes: the row it fetched, with the fields it set.
CallerRequest(id, status, approvedBy, days, start) ==
  [requests[id] EXCEPT !.Status = status, !.ApprovedBy = approvedBy,
                       !.Days = days, !.StartDate = start]

\* tx.First(oldRequest, request.ID) finds no row.
UpdateRequestNotFound(id) ==
  /\ ~HasRequest(id)
  /\ outcome' = [op |-> "update", result |-> "record not found"]
  /\ UNCHANGED <<balances, requests, tx, interleaved, calls>>
  /\ UNCHANGED others

\* Variant: the old and the new status are not compared, the ledger arithmetic
\* runs on every call.
UpdateReadOldNoCompare(t, id, status, approvedBy, days, start) ==
  /\ Begin(t, "update")
  /\ HasRequest(id)
  /\ tx' = [tx EXCEPT ![t] =
       [pc |-> "oldRead",
        id |-> id, req |-> CallerRequest(id, status, approvedBy, days, start),
        oldStatus |-> requests[id].Status, bal |-> NoBalance]]
  /\ UNCHANGED <<balances, requests, outcome>>

\* tx.First(oldRequest, request.ID) reads the stored row.
UpdateReadOld(t, id, status, approvedBy, days, start) ==
  /\ Begin(t, "update")
  /\ HasRequest(id)
  /\ tx' = [tx EXCEPT ![t] =
       [pc |-> IF requests[id].Status # status THEN "oldRead" ELSE "sameStatus",
        id |-> id, req |-> CallerRequest(id, status, approvedBy, days, start),
        oldStatus |-> requests[id].Status, bal |-> NoBalance]]
  /\ UNCHANGED <<balances, requests, outcome>>

\* The status changes: First(balance) by the caller's employee, type and start year.
UpdateReadBalance(t) ==
  /\ tx[t].pc = "oldRead"
  /\ HasBalance(BalanceKey(tx[t].req))
  /\ tx' = [tx EXCEPT ![t].pc = "balanceRead2", ![t].bal = balances[BalanceKey(tx[t].req)]]
  /\ Step(t)
  /\ UNCHANGED <<balances, requests, outcome>>

UpdateBalanceNotFound(t) ==
  /\ tx[t].pc = "oldRead"
  /\ ~HasBalance(BalanceKey(tx[t].req))
  /\ Finish(t, "update", "record not found")
  /\ Step(t)
  /\ UNCHANGED <<balances, requests>>

\* Variant: an approval takes the days out of pending_days and does not add them
\* to used_days.
TransitionBalanceNoUse(bal, req) ==
  IF req.Status \in {LeaveStatusApproved, LeaveStatusRejected, LeaveStatusCancelled}
    THEN [bal EXCEPT !.PendingDays = @ - req.Days]
  ELSE bal

\* switch request.Status
TransitionBalance(bal, req) ==
  IF req.Status = LeaveStatusApproved
    THEN [bal EXCEPT !.PendingDays = @ - req.Days, !.UsedDays = @ + req.Days]
  ELSE IF req.Status \in {LeaveStatusRejected, LeaveStatusCancelled}
    THEN [bal EXCEPT !.PendingDays = @ - req.Days]
  ELSE bal

\* tx.Save(balance) and tx.Save(request) succeed and the transaction commits.
UpdateCommit(t) ==
  /\ tx[t].pc = "balanceRead2"
  /\ BeforeUpdateError(tx[t].req) = Nil
  /\ balances' = [balances EXCEPT ![BalanceKey(tx[t].req)] =
                    TransitionBalance(tx[t].bal, tx[t].req)]
  /\ requests' = [requests EXCEPT ![tx[t].id] = tx[t].req]
  /\ Finish(t, "update", "ok")
  /\ Step(t)

\* Variant: the balance was saved outside the transaction and stays.
UpdateSaveFailsKeepsBalance(t) ==
  /\ tx[t].pc = "balanceRead2"
  /\ balances' = [balances EXCEPT ![BalanceKey(tx[t].req)] =
                    TransitionBalance(tx[t].bal, tx[t].req)]
  /\ Finish(t, "update", "save failed")
  /\ Step(t)
  /\ UNCHANGED requests

\* tx.Save(balance) fails, or tx.Save(request) is refused by BeforeUpdate, after
\* the balance was saved inside the transaction: the transaction rolls back.
UpdateSaveFails(t) ==
  /\ tx[t].pc = "balanceRead2"
  /\ \E err \in {"save failed"} \cup ({BeforeUpdateError(tx[t].req)} \ {Nil}) :
       Finish(t, "update", err)
  /\ Step(t)
  /\ UNCHANGED <<balances, requests>>

\* The status does not change: only tx.Save(request).
UpdateSameStatusCommit(t) ==
  /\ tx[t].pc = "sameStatus"
  /\ BeforeUpdateError(tx[t].req) = Nil
  /\ requests' = [requests EXCEPT ![tx[t].id] = tx[t].req]
  /\ Finish(t, "update", "ok")
  /\ Step(t)
  /\ UNCHANGED balances

\* tx.Save(request) is refused by BeforeUpdate, or else fails in the database.
UpdateSameStatusFails(t) ==
  /\ tx[t].pc = "sameStatus"
  /\ Finish(t, "update",
            IF BeforeUpdateError(tx[t].req) # Nil
              THEN BeforeUpdateError(tx[t].req) ELSE "save failed")
  /\ Step(t)
  /\ UNCHANGED <<balances, requests>>

\* ------------------------------------------------------------ specification
\* What a caller can put into the struct it passes to UpdateLeaveRequest besides
\* the stored values: another day count, another start date.
CallerStarts(id) == {requests[id].StartDate, MaxDate}
CallerApprovers(id, status) ==
  IF status = LeaveStatusApproved
    THEN {requests[id].ApprovedBy} \cup Approvers
    ELSE {requests[id].ApprovedBy}

\* service.CreateLeaveRequest with input the service accepts, on connection t.
CreateLeaveRequest(t) ==
  \E in \in AcceptedCreateInputs :
    CreateLeaveRequestInsert(t, in[1], in[2], in[3], in[4], in[5])

\* repository.UpdateLeaveRequest of a stored request, on connection t.
UpdateLeaveRequest(t) ==
  \E id \in RequestIds, status \in Statuses :
    \E approvedBy \in CallerApprovers(id, status), start \in CallerStarts(id) :
      UpdateReadOld(t, id, status, approvedBy, requests[id].Days, start)

Next ==
  \/ CreateLeaveRequestRejected
  \/ \E id \in RequestIds : UpdateRequestNotFound(id)
  \/ \E t \in TxIds :
       \/ CreateLeaveRequest(t)
       \/ CreateReadBalance(t)
       \/ CreateBalanceNotFound(t)
       \/ CreateCommit(t)
       \/ CreateSaveFails(t)
       \/ UpdateLeaveRequest(t)
       \/ UpdateReadBalance(t)
       \/ UpdateBalanceNotFound(t)
       \/ UpdateCommit(t)
       \/ UpdateSaveFails(t)
       \/ UpdateSameStatusCommit(t)
       \/ UpdateSameStatusFails(t)

Spec == Init /\ [][Next]_vars


\* ------------------------------------------------------------------ claims
AllIdle == \A t \in TxIds : ~Active(t)

\* Ledger key of a stored row, spelled out: employee, leave type, year of start.
RowKey(i) ==
  <<requests[i].EmployeeID, requests[i].LeaveTypeID, Year(requests[i].StartDate)>>

\* Sum of Days over the stored requests of key k whose status is status.
RECURSIVE SumDaysUpTo(_, _, _)
SumDaysUpTo(n, k, status) ==
  IF n = 0 THEN 0
  ELSE SumDaysUpTo(n - 1, k, status)
       + (IF HasRequest(n) /\ RowKey(n) = k /\ requests[n].Status = status
            THEN requests[n].Days ELSE 0)

SumDays(k, status) == SumDaysUpTo(MaxRequests, k, status)

\* Transaction t takes the step that ends its call.
Ends(t) == Active(t) /\ tx'[t].pc = "idle"
CreateCommits(t) ==
  tx[t].pc = "balanceRead" /\ Ends(t) /\ outcome' = [op |-> "create", result |-> "ok"]
UpdateCommits(t) ==
  /\ tx[t].pc \in {"balanceRead2", "sameStatus"}
  /\ Ends(t)
  /\ outcome' = [op |-> "update", result |-> "ok"]
UpdateFails(t) ==
  /\ tx[t].pc \in {"oldRead", "balanceRead2", "sameStatus"}
  /\ Ends(t)
  /\ outcome'.result # "ok"

\* What transaction t read is still what is committed: no other transaction
\* committed a change to the request row's status or to the ledger row since.
\* Always so when calls do not overlap.
ReadsCurrent(t) ==
  /\ tx[t].pc \in {"balanceRead", "balanceRead2"} =>
       balances[BalanceKey(tx[t].req)] = tx[t].bal
  /\ tx[t].pc \in {"oldRead", "balanceRead2", "sameStatus"} =>
       requests[tx[t].id].Status = tx[t].oldStatus

\* C1: no lost updates on reservation. While only CreateLeaveRequest
\* transactions have run and all of them have finished, the ledger row's
\* pending_days is its initial value (0) plus the Days of every request
\* committed for that key, whatever the interleaving of their reads and saves.
C1_NoLostReservation ==
  (calls.update = 0 /\ AllIdle) =>
    \A k \in Keys :
      HasBalance(k) => balances[k].PendingDays = SumDays(k, LeaveStatusPending)

\* C2: full reversal on cancelling an approved request. A committed transition
\* of a request of d days from approved to cancelled decreases used_days by d
\* and leaves pending_days unchanged (stated for the commits whose reads are
\* still current, as they are when calls do not overlap).
C2_CancelApprovedReverses ==
  [][\A t \in TxIds :
       (/\ UpdateCommits(t)
        /\ ReadsCurrent(t)
        /\ tx[t].oldStatus = LeaveStatusApproved
        /\ tx[t].req.Status = LeaveStatusCancelled)
       => LET k == BalanceKey(tx[t].req)
          IN /\ balances'[k].UsedDays = balances[k].UsedDays - tx[t].req.Days
             /\ balances'[k].PendingDays = balances[k].PendingDays]_vars

\* C3: ledger/request consistency. In every state reached by calls that do not
\* overlap, with no call in flight and every stored request on a key that has a
\* ledger row, pending_days of a ledger row is the sum of Days of its pending
\* requests and used_days the sum of Days of its approved requests.
C3_LedgerMatchesRequests ==
  (~interleaved /\ AllIdle /\ \A i \in RequestIds : HasRequest(i) => HasBalance(RowKey(i))) =>
    \A k \in Keys :
      HasBalance(k) =>
        /\ balances[k].PendingDays = SumDays(k, LeaveStatusPending)
        /\ balances[k].UsedDays = SumDays(k, LeaveStatusApproved)

\* C4: invalid transition out of approved. An UpdateLeaveRequest call with
\* target status rejected on a request whose stored status is approved ends
\* with an error and leaves the request row and the ledger unchanged.
C4_ApprovedToRejectedFails ==
  [][\A t \in TxIds :
       (/\ Ends(t)
        /\ tx[t].oldStatus = LeaveStatusApproved
        /\ requests[tx[t].id].Status = LeaveStatusApproved
        /\ tx[t].req.Status = LeaveStatusRejected)
       => /\ outcome'.result # "ok"
          /\ UNCHANGED <<requests, balances>>]_vars

\* C5: rejected and cancelled are terminal. An UpdateLeaveRequest call with a
\* different target status on a request whose stored status is rejected or
\* cancelled does not succeed and changes no ledger counter.
C5_RejectedCancelledTerminal ==
  [][\A t \in TxIds :
       (/\ Ends(t)
        /\ tx[t].oldStatus \in {LeaveStatusRejected, LeaveStatusCancelled}
        /\ requests[tx[t].id].Status = tx[t].oldStatus
        /\ tx[t].req.Status # tx[t].oldStatus)
       => /\ outcome'.result # "ok"
          /\ UNCHANGED <<requests, balances>>]_vars


\* Weekdays of the closed range [start, end], counted directly.
WeekdaysIn(start, end) ==
  Cardinality({d \in start..end : Weekday(d) \notin {Saturday, Sunday}})

\* Ledger key of the request a transaction carries, spelled out.
TxKey(t) ==
  <<tx[t].req.EmployeeID, tx[t].req.LeaveTypeID, Year(tx[t].req.StartDate)>>

TheKey == <<"e1", "lt1", Year(0)>>

\* What C6 says of the commit of the CreateLeaveRequest transaction t; the
\* ledger part is required when current holds.
ReservesOnCreation(t, current) ==
  LET r == tx[t].req
      k == TxKey(t)
  IN /\ ~HasRequest(tx[t].id)
     /\ requests' = [requests EXCEPT ![tx[t].id] = r]
     /\ r.Status = LeaveStatusPending
     /\ r.Days = WeekdaysIn(r.StartDate, r.EndDate)
     /\ \A k2 \in Keys \ {k} : balances'[k2] = balances[k2]
     /\ current =>
          /\ balances'[k].PendingDays = balances[k].PendingDays + r.Days
          /\ balances'[k].UsedDays = balances[k].UsedDays
          /\ balances'[k].TotalDays = balances[k].TotalDays

\* C6: reserve on creation. A committed CreateLeaveRequest stores a new row with
\* status pending whose Days is the weekday count of [start, end], and raises
\* pending_days of the row keyed by (employee, leave type, year of start) by
\* that Days, leaving used_days, total_days and every other ledger row as they
\* were.
C6_ReserveOnCreation ==
  [][\A t \in TxIds : CreateCommits(t) => ReservesOnCreation(t, TRUE)]_vars

\* C6 restricted to the commits whose read of the ledger row is still current.
C6_ReserveOnCreationReadsCurrent ==
  [][\A t \in TxIds : CreateCommits(t) => ReservesOnCreation(t, ReadsCurrent(t))]_vars

\* Transaction t commits the transition of a stored request from status from
\* to status to.
Transitions(t, from, to) ==
  /\ UpdateCommits(t)
  /\ tx[t].oldStatus = from
  /\ requests[tx[t].id].Status = from
  /\ tx[t].req.Status = to

\* What C7 says of the ledger row in the step that commits an approval.
CommitsOnApproval(t) ==
  LET k == TxKey(t)
      d == tx[t].req.Days
  IN /\ requests'[tx[t].id].Status = LeaveStatusApproved
     /\ balances'[k].PendingDays = balances[k].PendingDays - d
     /\ balances'[k].UsedDays = balances[k].UsedDays + d
     /\ balances'[k].TotalDays = balances[k].TotalDays
     /\ balances'[k].UsedDays + balances'[k].PendingDays
          = balances[k].UsedDays + balances[k].PendingDays

\* C7: commit on approval. A committed transition of a request of d days from
\* pending to approved lowers pending_days by d and raises used_days by d,
\* leaving total_days unchanged.
C7_CommitOnApproval ==
  [][\A t \in TxIds :
       Transitions(t, LeaveStatusPending, LeaveStatusApproved) => CommitsOnApproval(t)]_vars

\* C7 restricted to the commits whose reads are still current.
C7_CommitOnApprovalReadsCurrent ==
  [][\A t \in TxIds :
       (Transitions(t, LeaveStatusPending, LeaveStatusApproved) /\ ReadsCurrent(t))
       => CommitsOnApproval(t)]_vars

\* What C8 says of the ledger row in the step that commits a rejection or a
\* cancellation.
Releases(t) ==
  LET k == TxKey(t)
      d == tx[t].req.Days
  IN /\ requests'[tx[t].id].Status = tx[t].req.Status
     /\ balances'[k].PendingDays = balances[k].PendingDays - d
     /\ balances'[k].UsedDays = balances[k].UsedDays
     /\ balances'[k].TotalDays = balances[k].TotalDays

\* C8: release on rejection or cancellation of a pending request. A committed
\* transition of a request of d days from pending to rejected or to cancelled
\* lowers pending_days by d and leaves used_days and total_days unchanged.
C8_ReleaseOnRejectOrCancel ==
  [][\A t \in TxIds :
       (\/ Transitions(t, LeaveStatusPending, LeaveStatusRejected)
        \/ Transitions(t, LeaveStatusPending, LeaveStatusCancelled))
       => Releases(t)]_vars

\* C8 restricted to the commits whose reads are still current.
C8_ReleaseOnRejectOrCancelReadsCurrent ==
  [][\A t \in TxIds :
       (/\ \/ Transitions(t, LeaveStatusPending, LeaveStatusRejected)
           \/ Transitions(t, LeaveStatusPending, LeaveStatusCancelled)
        /\ ReadsCurrent(t))
       => Releases(t)]_vars

\* C9: reservation without a ledger row fails atomically. When the transaction
\* of CreateLeaveRequest looks up a key that has no ledger row, the call returns
\* an error, the inserted request row is not persisted, and no ledger row is
\* created or changed.
C9_CreateWithoutLedgerRowFails ==
  [][\A t \in TxIds :
       (tx[t].pc = "created" /\ ~balances[TxKey(t)].exists /\ tx'[t] # tx[t])
       => /\ tx'[t].pc = "idle"
          /\ outcome' = [op |-> "create", result |-> "record not found"]
          /\ UNCHANGED <<requests, balances>>]_vars

C9_Witness ==
  /\ outcome = [op |-> "create", result |-> "record not found"]
  /\ calls = [create |-> 1, update |-> 0]
  /\ AllIdle
  /\ \A i \in RequestIds : ~HasRequest(i)
  /\ \A k \in Keys : k # TheKey => ~HasBalance(k)
  /\ balances[TheKey].PendingDays = 0

UpdateInFlight(t) == tx[t].pc \in {"oldRead", "balanceRead2", "sameStatus"}

\* C10: atomic transition. An UpdateLeaveRequest call that ends with an error
\* (request row not found, ledger row not found, a save failing or refused)
\* changes neither the request row nor the ledger; a step of an update changes
\* the ledger only together with storing the request it carries, and an update
\* whose target status differs from the status it read stores its request only
\* in the step that saves the ledger row.
C10_AtomicTransition ==
  [][/\ tx' = tx => UNCHANGED <<requests, balances>>
     /\ \A t \in TxIds :
          /\ UpdateFails(t) => UNCHANGED <<requests, balances>>
          /\ (UpdateInFlight(t) /\ tx'[t] # tx[t]) =>
               /\ balances' # balances =>
                    /\ outcome' = [op |-> "update", result |-> "ok"]
                    /\ requests'[tx[t].id] = tx[t].req
               /\ (tx[t].oldStatus # tx[t].req.Status /\ requests' # requests) =>
                    /\ outcome' = [op |-> "update", result |-> "ok"]
                    /\ tx[t].pc = "balanceRead2"
                    /\ requests'[tx[t].id] = tx[t].req
                    /\ balances'[TxKey(t)].exists]_vars

C10_Witness ==
  /\ outcome = [op |-> "update", result |-> "save failed"]
  /\ calls = [create |-> 1, update |-> 1]
  /\ AllIdle
  /\ requests[1].Status = LeaveStatusPending
  /\ requests[1].Days = 2
  /\ balances[TheKey].PendingDays = 2
  /\ balances[TheKey].UsedDays = 0

\* ------------------------------------------------- the Working-Day Calculator
\* Last day of the calendar the calculator is run on: days 0..MaxCalcDate, from
\* Thursday 31 December 2026 to Friday 8 January 2027.
MaxCalcDate == 8
CalcDates == 0..MaxCalcDate

\* A caller holds a pair of dates.
CalcInit ==
  /\ InitBalances
  /\ requests = [i \in RequestIds |-> NoRequest]
  /\ InitCalls
  /\ InitOthers
  /\ \E start \in CalcDates, end \in CalcDates :
       probe = [op |-> "dates", args |-> <<start, end>>, result |-> Nil]

\* calculateWorkingDays(start, end) is called on the pair (for the first time or
\* again) and returns.
CalculateWorkingDaysCall ==
  /\ probe.op \in {"dates", "calculateWorkingDays"}
  /\ probe' = [op |-> "calculateWorkingDays", args |-> probe.args,
               result |-> calculateWorkingDays(probe.args[1], probe.args[2])]
  /\ UNCHANGED <<balances, requests, tx, outcome, interleaved, calls,
                 history, now, adjustments, atx, leaveTypes, del>>

CalcNext == CalculateWorkingDaysCall

CalcSpec == CalcInit /\ [][CalcNext]_vars

\* C12: Working-Day Calculator correctness. For every pair of dates with
\* start <= end, calculateWorkingDays(start, end) returns the number of days of
\* the closed range [start, end] that are neither Saturday nor Sunday (Monday to
\* Friday gives 5, Saturday to Sunday 0, Friday to Monday 2), and a second call
\* on the same pair returns what the first returned.
C12_CalculatorCountsWeekdays ==
  [][probe'.op = "calculateWorkingDays" =>
       LET start == probe'.args[1]
           end == probe'.args[2]
       IN /\ start <= end =>
               probe'.result = Cardinality({d \in start..end : Weekday(d) \notin {Saturday, Sunday}})
          /\ (start = 4 /\ end = 8) => probe'.result = 5
          /\ (start = 2 /\ end = 3) => probe'.result = 0
          /\ (start = 1 /\ end = 4) => probe'.result = 2
          /\ probe.op = "calculateWorkingDays" => probe'.result = probe.result]_vars

C12_Witness ==
  /\ probe.op = "calculateWorkingDays"
  /\ probe.args = <<1, 4>>
  /\ Weekday(1) = 5 /\ Weekday(4) = 1
  /\ probe.result = 2

\* ------------------------------------- service.CreateLeaveRequest, call by call
\* Calls that run one after the other: each call is one step, from the service's
\* validations to the commit or rollback of the repository transaction.
\* Last day of the calendar the callers pick their dates from.
MaxServiceDate == 3
ServiceDates == 0..MaxServiceDate
\* Calls made over a run.
MaxServiceCalls == 1

ServiceInputs ==
  Organizations \X (Employees \cup {Nil}) \X (LeaveTypeIds \cup {Nil, "ltX"})
    \X ServiceDates \X ServiceDates

\* The first employee has a ledger row for every year; the others have none.
ServiceInit ==
  /\ balances = [k \in Keys |->
       IF k[1] = "e1"
         THEN [exists |-> TRUE, TotalDays |-> InitialTotalDays,
               UsedDays |-> 0, PendingDays |-> 0, RemainingDays |-> InitialTotalDays]
         ELSE NoBalance]
  /\ requests = [i \in RequestIds |-> NoRequest]
  /\ InitCalls
  /\ InitOthers
  /\ probe = NoProbe

\* The whole call on a quiet database: the error of the service or of the
\* hook, or else the repository transaction, which inserts the row, reads the
\* ledger row, adds Days to pending_days and saves it.
ServiceCreateLeaveRequest(org, emp, lt, start, end) ==
  LET err == CreateError(org, emp, lt, start, end)
      req == NewLeaveRequest(emp, lt, start, end)
      args == <<org, emp, lt, start, end>>
      Returns(result) == probe' = [op |-> "CreateLeaveRequest", args |-> args, result |-> result]
  IN /\ \A t \in TxIds : ~Active(t)
     /\ calls.create < MaxServiceCalls
     /\ calls' = [calls EXCEPT !.create = @ + 1]
     /\ \/ /\ err # Nil
           /\ Returns(err)
           /\ UNCHANGED <<balances, requests>>
        \/ /\ err = Nil
           /\ ~HasBalance(BalanceKey(req))
           /\ Returns("record not found")
           /\ UNCHANGED <<balances, requests>>
        \/ /\ err = Nil
           /\ HasBalance(BalanceKey(req))
           /\ Returns("save failed")
           /\ UNCHANGED <<balances, requests>>
        \/ /\ err = Nil
           /\ HasBalance(BalanceKey(req))
           /\ FreeIds # {}
           /\ LET id == CHOOSE i \in FreeIds : \A j \in FreeIds : i <= j
              IN requests' = [requests EXCEPT ![id] = req]
           /\ balances' = [balances EXCEPT ![BalanceKey(req)] =
                             ReservedBalance(balances[BalanceKey(req)], req)]
           /\ Returns("ok")
     /\ UNCHANGED <<tx, outcome, interleaved, history, now, adjustments, atx, leaveTypes, del>>

ServiceNext ==
  \E in \in ServiceInputs :
    ServiceCreateLeaveRequest(in[1], in[2], in[3], in[4], in[5])

ServiceSpec == ServiceInit /\ [][ServiceNext]_vars

\* C13: inverted range is rejected. A CreateLeaveRequest call whose start date
\* is strictly after its end date returns an error, the BeforeCreate hook
\* refuses such a pair before the calculator is run on it, no request row is
\* stored and no ledger row changes.
C13_InvertedRangeRejected ==
  [][(probe'.op = "CreateLeaveRequest" /\ probe' # probe /\ probe'.args[4] > probe'.args[5]) =>
       /\ probe'.result \notin {"ok", Nil}
       /\ UNCHANGED <<requests, balances>>]_vars

C13_Witness ==
  /\ probe.op = "CreateLeaveRequest"
  /\ probe.args = <<"o1", "e1", "lt1", 1, 0>>
  /\ probe.result = "start date cannot be after end date"
  /\ \A i \in RequestIds : ~HasRequest(i)
  /\ \A k \in Keys : balances[k].PendingDays = 0

\* C14: max-days policy. A CreateLeaveRequest call that passes the other
\* validations fails and stores nothing when the weekday count of [start, end]
\* (the Days it would store) exceeds the leave type's MaxDaysPerRequest, is not
\* failed with "total days exceed maximum allowed" when the count is at most
\* MaxDaysPerRequest, and so no stored request has Days above its leave type's
\* MaxDaysPerRequest.
C14_MaxDaysPolicy ==
  [][(probe'.op = "CreateLeaveRequest" /\ probe' # probe) =>
       LET org == probe'.args[1]
           emp == probe'.args[2]
           lt == probe'.args[3]
           start == probe'.args[4]
           end == probe'.args[5]
           valid == emp # Nil /\ lt # Nil /\ start <= end /\ GetLeaveTypeError(org, lt) = Nil
           days == Cardinality({d \in start..end : Weekday(d) \notin {Saturday, Sunday}})
       IN valid =>
            /\ days > MaxDaysPerRequest(lt) =>
                 /\ probe'.result # "ok"
                 /\ UNCHANGED <<requests, balances>>
            /\ days <= MaxDaysPerRequest(lt) =>
                 probe'.result # "total days exceed maximum allowed"
            /\ \A i \in RequestIds :
                 HasRequest(i)' => requests'[i].Days <= MaxDaysPerRequest(requests'[i].LeaveTypeID)]_vars

\* ------------------------------------------------------ leave_request_history
\* History rows a request can have.
MaxHistory == 1

\* repository.CreateLeaveRequestHistory: r.db.Create(history), a single insert on
\* the connection pool, outside every transaction; leave_request_id references
\* a stored request.  No method of the repository or of the service calls it.
CreateLeaveRequestHistory(id) ==
  /\ HasRequest(id)
  /\ history[id] < MaxHistory
  /\ history' = [history EXCEPT ![id] = @ + 1]
  /\ UNCHANGED <<balances, requests, tx, outcome, interleaved, calls,
                 now, adjustments, atx, probe, leaveTypes, del>>

HistoryNext ==
  \/ Next
  \/ \E id \in RequestIds : CreateLeaveRequestHistory(id)

HistorySpec == Init /\ [][HistoryNext]_vars

\* Transaction t commits a lifecycle transition of its request: the creation
\* into pending, or an update that changes the stored status.
CommitsTransition(t) ==
  \/ CreateCommits(t)
  \/ UpdateCommits(t) /\ requests'[tx[t].id].Status # requests[tx[t].id].Status

\* C11: one history row per transition. The step that commits a creation or a
\* status change of a request adds exactly one history row of that request,
\* and history rows appear in no other step, so that a request always has as
\* many history rows as it has undergone transitions.
C11_OneHistoryRowPerTransition ==
  [][/\ \A t \in TxIds :
          CommitsTransition(t) => history'[tx[t].id] = history[tx[t].id] + 1
     /\ \A i \in RequestIds :
          history'[i] # history[i] =>
            \E t \in TxIds : CommitsTransition(t) /\ tx[t].id = i]_vars

\* ------------------------------------------------------ approval and approver
\* C18: approval requires an approver. An UpdateLeaveRequest call whose request
\* has status approved and no approver (ApprovedBy nil) ends with an error, and
\* the ledger row and the stored request are what they were before the call's
\* last step: nothing the transaction wrote persists.
C18_ApprovalRequiresApprover ==
  [][\A t \in TxIds :
       (/\ UpdateInFlight(t)
        /\ Ends(t)
        /\ tx[t].req.Status = LeaveStatusApproved
        /\ tx[t].req.ApprovedBy = Nil)
       => /\ outcome'.op = "update"
          /\ outcome'.result # "ok"
          /\ UNCHANGED <<requests, balances>>]_vars

C18_Witness ==
  /\ outcome = [op |-> "update",
                result |-> "approved_by is required when status is approved"]
  /\ calls = [create |-> 1, update |-> 1]
  /\ AllIdle
  /\ requests[1].Status = LeaveStatusPending
  /\ requests[1].ApprovedBy = Nil
  /\ balances[TheKey].PendingDays = requests[1].Days
  /\ balances[TheKey].UsedDays = 0

\* ------------------------------------------------------------------ the clock
\* A day passes.
Tick ==
  /\ now < MaxDate
  /\ now' = now + 1
  /\ UNCHANGED <<balances, requests, tx, outcome, interleaved, calls,
                 history, adjustments, atx, probe, leaveTypes, del>>

\* LeaveRequest.CanCancel (defined by the domain, called by no one).
CanCancel(req) ==
  \/ req.Status = LeaveStatusPending
  \/ req.Status = LeaveStatusApproved /\ req.StartDate > now

ClockNext == Next \/ Tick

ClockSpec == Init /\ [][ClockNext]_vars

\* C19: cancellation window for approved requests. An UpdateLeaveRequest call
\* with target status cancelled on a request whose stored status is approved
\* succeeds only if the request's start date is strictly after the current
\* time; otherwise it ends with an error and leaves the request and the ledger
\* unchanged.
C19_CancellationWindow ==
  [][\A t \in TxIds :
       (/\ UpdateInFlight(t)
        /\ Ends(t)
        /\ tx[t].oldStatus = LeaveStatusApproved
        /\ requests[tx[t].id].Status = LeaveStatusApproved
        /\ tx[t].req.Status = LeaveStatusCancelled
        /\ requests[tx[t].id].StartDate <= now)
       => /\ outcome'.result # "ok"
          /\ UNCHANGED <<requests, balances>>]_vars

\* --------------------------------------------------------- the Overlap Detector
\* Rows of leave_requests the detector is run against.
MaxOverlapRows == 1

\* The rows CreateLeaveRequest and the status changes leave in the table: any
\* employee, any range with start <= end, Days as BeforeCreate computed it, any
\* status, an approver on the approved ones.
StoredRows ==
  LET Ranges == {p \in Dates \X Dates : p[1] <= p[2]}
  IN {[NewLeaveRequest(emp, lt, p[1], p[2]) EXCEPT
         !.Status = status,
         !.ApprovedBy = IF status = LeaveStatusApproved THEN "boss" ELSE Nil] :
        emp \in Employees, lt \in LeaveTypeIds, status \in Statuses, p \in Ranges}

OverlapInit ==
  /\ InitBalances
  /\ \E rows \in [1..MaxOverlapRows -> StoredRows \cup {NoRequest}] :
       requests = [i \in RequestIds |->
                     IF i <= MaxOverlapRows THEN rows[i] ELSE NoRequest]
  /\ InitCalls
  /\ InitOthers
  /\ probe = NoProbe

\* Variant: the clause for a stored range that contains the candidate is missing.
GetOverlappingRequestsNoContaining(employeeID, startDate, endDate) ==
  {i \in RequestIds :
     /\ HasRequest(i)
     /\ requests[i].EmployeeID = employeeID
     /\ requests[i].Status \in {"pending", "approved"}
     /\ \/ startDate <= requests[i].StartDate /\ requests[i].StartDate <= endDate
        \/ startDate <= requests[i].EndDate /\ requests[i].EndDate <= endDate}

\* repository.GetOverlappingRequests: the ids of the rows the query selects.
\* x BETWEEN a AND b is a <= x AND x <= b.
GetOverlappingRequests(employeeID, startDate, endDate) ==
  {i \in RequestIds :
     /\ HasRequest(i)
     /\ requests[i].EmployeeID = employeeID
     /\ requests[i].Status \in {"pending", "approved"}
     /\ \/ startDate <= requests[i].StartDate /\ requests[i].StartDate <= endDate
        \/ startDate <= requests[i].EndDate /\ requests[i].EndDate <= endDate
        \/ requests[i].StartDate <= startDate /\ requests[i].EndDate >= endDate}

\* A caller runs the query for an employee and a candidate range.
GetOverlappingRequestsCall(employeeID, startDate, endDate) ==
  /\ probe = NoProbe
  /\ probe' = [op |-> "GetOverlappingRequests",
               args |-> <<employeeID, startDate, endDate>>,
               result |-> GetOverlappingRequests(employeeID, startDate, endDate)]
  /\ UNCHANGED <<balances, requests, tx, outcome, interleaved, calls,
                 history, now, adjustments, atx, leaveTypes, del>>

OverlapNext ==
  \E employeeID \in Employees, startDate \in Dates, endDate \in Dates :
    GetOverlappingRequestsCall(employeeID, startDate, endDate)

OverlapSpec == OverlapInit /\ [][OverlapNext]_vars

MaxAdjCalls == 3
\* The signed day counts a caller asks for.
Deltas == {2, -1}

HasAdjustment(a) == adjustments[a].Status # Nil
AdjActive(t) == atx[t].pc # "idle"
AdjOthersActive(t) == \E u \in TxIds \ {t} : AdjActive(u)
AdjFirstIdle == IF ~AdjActive("t1") THEN "t1" ELSE "t2"
FreeAdjustmentIds ==
  {a \in AdjustmentIds :
     ~HasAdjustment(a) /\ \A t \in TxIds : atx[t].id # a \/ ~AdjActive(t)}

\* What every step of an adjustment transaction leaves alone.
AdjFrame == UNCHANGED <<requests, tx, history, now, probe, leaveTypes, del>>

AdjBegin(t, op) ==
  /\ ~AdjActive(t)
  /\ t = AdjFirstIdle
  /\ calls.create + calls.update < MaxAdjCalls
  /\ calls' = [calls EXCEPT ![op] = @ + 1]
  /\ interleaved' = (interleaved \/ AdjOthersActive(t))
  /\ AdjFrame

AdjStep(t) ==
  /\ interleaved' = (interleaved \/ AdjOthersActive(t))
  /\ calls' = calls
  /\ AdjFrame

AdjFinish(t, op, result) ==
  /\ atx' = [atx EXCEPT ![t] = IdleAtx]
  /\ outcome' = [op |-> op, result |-> result]

\* The row tx.Create stores: an empty Status takes the column default.
NewAdjustment(key, delta, status) ==
  [LeaveBalanceID |-> key, Adjustment |-> delta,
   Status |-> IF status = "" THEN AdjustmentStatusPending ELSE status]

\* balance.TotalDays += adjustment
AdjustedBalance(bal, delta) == [bal EXCEPT !.TotalDays = @ + delta]

\* What a caller can pass as Status when it creates an adjustment.
CreateStatuses == AdjustmentStatuses \cup {""}
LeastFreeAdjustmentId == CHOOSE a \in FreeAdjustmentIds : \A b \in FreeAdjustmentIds : a <= b

\* CreateBalanceAdjustment: tx.Create(adjustment) is refused, leave_balance_id
\* references no ledger row.
CreateBalanceAdjustmentRefused ==
  /\ \E key \in Keys : ~HasBalance(key)
  /\ outcome' = [op |-> "createAdjustment", result |-> "foreign key violation"]
  /\ UNCHANGED <<balances, adjustments, atx, interleaved, calls>>
  /\ AdjFrame

\* CreateBalanceAdjustment with a status other than approved: the transaction
\* only inserts the row.
CreateBalanceAdjustmentInsert(t, key, delta, status) ==
  /\ AdjBegin(t, "create")
  /\ HasBalance(key)
  /\ NewAdjustment(key, delta, status).Status # AdjustmentStatusApproved
  /\ FreeAdjustmentIds # {}
  /\ adjustments' = [adjustments EXCEPT ![LeastFreeAdjustmentId] =
                        NewAdjustment(key, delta, status)]
  /\ outcome' = [op |-> "createAdjustment", result |-> "ok"]
  /\ UNCHANGED <<balances, atx>>

\* CreateBalanceAdjustment with status approved: tx.Create(adjustment), then
\* tx.First(balance, adjustment.LeaveBalanceID).
CreateBalanceAdjustmentRead(t, key, delta) ==
  /\ AdjBegin(t, "create")
  /\ HasBalance(key)
  /\ FreeAdjustmentIds # {}
  /\ atx' = [atx EXCEPT ![t] =
       [pc |-> "created", id |-> LeastFreeAdjustmentId,
        adj |-> NewAdjustment(key, delta, AdjustmentStatusApproved),
        oldStatus |-> Nil, bal |-> balances[key]]]
  /\ UNCHANGED <<balances, adjustments, outcome>>

\* balance.TotalDays += adjustment.Adjustment; tx.Save(balance); commit.
CreateBalanceAdjustmentCommit(t) ==
  /\ atx[t].pc = "created"
  /\ balances' = [balances EXCEPT ![atx[t].adj.LeaveBalanceID] =
                    AdjustedBalance(atx[t].bal, atx[t].adj.Adjustment)]
  /\ adjustments' = [adjustments EXCEPT ![atx[t].id] = atx[t].adj]
  /\ AdjFinish(t, "createAdjustment", "ok")
  /\ AdjStep(t)

\* The caller of AdjustLeaveBalance obtains the balance it will pass.
AdjustLeaveBalanceRead(t, key, delta) ==
  /\ AdjBegin(t, "create")
  /\ HasBalance(key)
  /\ FreeAdjustmentIds # {}
  /\ atx' = [atx EXCEPT ![t] =
       [pc |-> "held", id |-> LeastFreeAdjustmentId,
        adj |-> NewAdjustment(key, delta, ""),
        oldStatus |-> Nil, bal |-> balances[key]]]
  /\ UNCHANGED <<balances, adjustments, outcome>>

\* AdjustLeaveBalance: balance.TotalDays += adjustment on the caller's copy,
\* tx.Create of an adjustment row without a status, tx.Save(balance), commit.
AdjustLeaveBalanceCommit(t) ==
  /\ atx[t].pc = "held"
  /\ balances' = [balances EXCEPT ![atx[t].adj.LeaveBalanceID] =
                    AdjustedBalance(atx[t].bal, atx[t].adj.Adjustment)]
  /\ adjustments' = [adjustments EXCEPT ![atx[t].id] = atx[t].adj]
  /\ AdjFinish(t, "adjust", "ok")
  /\ AdjStep(t)

\* UpdateBalanceAdjustment: tx.First(oldAdjustment, adjustment.ID) finds no row.
UpdateBalanceAdjustmentNotFound(id) ==
  /\ ~HasAdjustment(id)
  /\ outcome' = [op |-> "updateAdjustment", result |-> "record not found"]
  /\ UNCHANGED <<balances, adjustments, atx, interleaved, calls>>
  /\ AdjFrame

\* tx.First(oldAdjustment, adjustment.ID) reads the stored row; the caller
\* passes the stored row with the status it asks for.
UpdateBalanceAdjustmentReadOld(t, id, status) ==
  /\ AdjBegin(t, "update")
  /\ HasAdjustment(id)
  /\ atx' = [atx EXCEPT ![t] =
       [pc |-> IF adjustments[id].Status # status /\ status = AdjustmentStatusApproved
                 THEN "oldRead" ELSE "noApply",
        id |-> id, adj |-> [adjustments[id] EXCEPT !.Status = status],
        oldStatus |-> adjustments[id].Status, bal |-> NoBalance]]
  /\ UNCHANGED <<balances, adjustments, outcome>>

\* tx.First(balance, adjustment.LeaveBalanceID)
UpdateBalanceAdjustmentReadBalance(t) ==
  /\ atx[t].pc = "oldRead"
  /\ atx' = [atx EXCEPT ![t].pc = "balanceRead",
                         ![t].bal = balances[atx[t].adj.LeaveBalanceID]]
  /\ AdjStep(t)
  /\ UNCHANGED <<balances, adjustments, outcome>>

\* balance.TotalDays += adjustment.Adjustment; tx.Save(balance);
\* tx.Save(adjustment); commit.
UpdateBalanceAdjustmentCommit(t) ==
  /\ atx[t].pc = "balanceRead"
  /\ balances' = [balances EXCEPT ![atx[t].adj.LeaveBalanceID] =
                    AdjustedBalance(atx[t].bal, atx[t].adj.Adjustment)]
  /\ adjustments' = [adjustments EXCEPT ![atx[t].id] = atx[t].adj]
  /\ AdjFinish(t, "updateAdjustment", "ok")
  /\ AdjStep(t)

\* No approval to apply: only tx.Save(adjustment); commit.
UpdateBalanceAdjustmentSave(t) ==
  /\ atx[t].pc = "noApply"
  /\ adjustments' = [adjustments EXCEPT ![atx[t].id] = atx[t].adj]
  /\ AdjFinish(t, "updateAdjustment", "ok")
  /\ AdjStep(t)
  /\ UNCHANGED balances

\* A Save fails: the transaction in flight returns the error and rolls back.
AdjustmentRollback(t) ==
  /\ AdjActive(t)
  /\ AdjFinish(t, "adjustment", "save failed")
  /\ AdjStep(t)
  /\ UNCHANGED <<balances, adjustments>>

CreateBalanceAdjustment(t) ==
  \E key \in Keys, delta \in Deltas :
    \/ \E status \in CreateStatuses : CreateBalanceAdjustmentInsert(t, key, delta, status)
    \/ CreateBalanceAdjustmentRead(t, key, delta)

AdjustLeaveBalance(t) ==
  \E key \in Keys, delta \in Deltas : AdjustLeaveBalanceRead(t, key, delta)

UpdateBalanceAdjustment(t) ==
  \E id \in AdjustmentIds, status \in AdjustmentStatuses :
    UpdateBalanceAdjustmentReadOld(t, id, status)

AdjustNext ==
  \/ CreateBalanceAdjustmentRefused
  \/ \E id \in AdjustmentIds : UpdateBalanceAdjustmentNotFound(id)
  \/ \E t \in TxIds :
       \/ CreateBalanceAdjustment(t)
       \/ CreateBalanceAdjustmentCommit(t)
       \/ AdjustLeaveBalance(t)
       \/ AdjustLeaveBalanceCommit(t)
       \/ UpdateBalanceAdjustment(t)
       \/ UpdateBalanceAdjustmentReadBalance(t)
       \/ UpdateBalanceAdjustmentCommit(t)
       \/ UpdateBalanceAdjustmentSave(t)
       \/ AdjustmentRollback(t)

AdjustSpec == Init /\ [][AdjustNext]_vars

\* ---------------------------------------------------------------------------
\* Balance adjustments: claims
\* ---------------------------------------------------------------------------

RECURSIVE SumApprovedUpTo(_, _, _)
SumApprovedUpTo(adjs, key, n) ==
  IF n = 0 THEN 0
  ELSE SumApprovedUpTo(adjs, key, n - 1)
       + (IF adjs[n].Status = AdjustmentStatusApproved /\ adjs[n].LeaveBalanceID = key
            THEN adjs[n].Adjustment ELSE 0)

SumApproved(adjs, key) == SumApprovedUpTo(adjs, key, MaxAdjustments)

\* Adjustment a of ledger key changes into approved in this step.
BecomesApproved(a, key) ==
  /\ adjustments[a].Status # AdjustmentStatusApproved
  /\ adjustments'[a].Status = AdjustmentStatusApproved
  /\ adjustments'[a].LeaveBalanceID = key

\* Transaction t is an UpdateBalanceAdjustment call that returns in this step.
UpdateAdjustmentReturns(t) ==
  /\ atx[t].pc \in {"oldRead", "balanceRead", "noApply"}
  /\ atx'[t].pc = "idle"

\* C15: each adjustment is applied at most once.  total_days of a ledger row
\* changes only in a step where one of its adjustments changes into approved,
\* and then by that adjustment's delta; so total_days always equals its
\* initial value plus the sum of the deltas of its approved adjustments.
C15_AdjustmentAppliedOnce ==
  [][\A key \in InitialKeys :
       /\ balances'[key].TotalDays # balances[key].TotalDays =>
            \E a \in AdjustmentIds :
              /\ BecomesApproved(a, key)
              /\ balances'[key].TotalDays =
                   balances[key].TotalDays + adjustments'[a].Adjustment
       /\ balances'[key].TotalDays =
            InitialTotalDays + SumApproved(adjustments', key)]_vars

\* C16: re-approval is a no-op.  An UpdateBalanceAdjustment call with target
\* status approved that returns while the stored status of its adjustment is
\* already approved leaves total_days of the referenced ledger row unchanged,
\* also when the stored status became approved through a concurrent approve
\* call for the same adjustment.
C16_ReapprovalNoOp ==
  [][\A t \in TxIds :
       ( /\ UpdateAdjustmentReturns(t)
         /\ atx[t].adj.Status = AdjustmentStatusApproved
         /\ adjustments[atx[t].id].Status = AdjustmentStatusApproved )
       => balances'[atx[t].adj.LeaveBalanceID].TotalDays =
            balances[atx[t].adj.LeaveBalanceID].TotalDays]_vars

\* C17: approved and rejected are terminal.  An UpdateBalanceAdjustment call
\* that found its adjustment approved or rejected and asks for another status
\* fails and changes neither the adjustment nor the ledger; in particular the
\* delta of a rejected adjustment is never added to total_days.
C17_AdjustmentTerminal ==
  [][\A t \in TxIds :
       ( /\ UpdateAdjustmentReturns(t)
         /\ atx[t].oldStatus \in {AdjustmentStatusApproved, AdjustmentStatusRejected}
         /\ atx[t].adj.Status # atx[t].oldStatus )
       => /\ outcome'.result # "ok"
          /\ adjustments'[atx[t].id] = adjustments[atx[t].id]
          /\ balances' = balances]_vars

\* ------------------------------------- adjustments and the request lifecycle
\* An adjustment of the first ledger row waits for its approval while leave
\* requests are created and moved through their lifecycle.
MixedInit ==
  /\ InitBalances
  /\ requests = [i \in RequestIds |-> NoRequest]
  /\ InitCalls
  /\ history = [i \in RequestIds |-> 0]
  /\ now = 0
  /\ \E delta \in Deltas :
       adjustments = [a \in AdjustmentIds |->
         IF a = 1 THEN NewAdjustment(<<"e1", "lt1", Year(0)>>, delta, "")
                  ELSE NoAdjustment]
  /\ probe = NoProbe
  /\ leaveTypes = LeaveTypeIds
  /\ del = IdleDelete

\* The leave request transactions and UpdateBalanceAdjustment, each on its own
\* connection, in any interleaving.
MixedNext ==
  \/ Next
  \/ \E t \in TxIds :
       \/ UpdateBalanceAdjustment(t)
       \/ UpdateBalanceAdjustmentReadBalance(t)
       \/ UpdateBalanceAdjustmentCommit(t)
       \/ UpdateBalanceAdjustmentSave(t)
       \/ AdjustmentRollback(t)

MixedSpec == MixedInit /\ [][MixedNext]_vars

\* C21: adjustments serialize against lifecycle mutations on the same ledger
\* row.  The commit of an adjustment approval changes total_days by its delta
\* and leaves pending_days and used_days of the row as committed; the commit of
\* a reservation or of a status transition leaves total_days as committed:
\* neither whole-row save overwrites a column the other transaction wrote.
C21_AdjustmentsSerializeWithLifecycle ==
  [][\A k \in InitialKeys :
       /\ (\E t \in TxIds : atx[t].pc = "balanceRead" /\ atx'[t].pc = "idle"
                             /\ atx[t].adj.LeaveBalanceID = k
                             /\ outcome'.result = "ok") =>
            /\ balances'[k].PendingDays = balances[k].PendingDays
            /\ balances'[k].UsedDays = balances[k].UsedDays
       /\ (\E t \in TxIds : CreateCommits(t) \/ UpdateCommits(t)) =>
            balances'[k].TotalDays = balances[k].TotalDays]_vars

\* ------------------------------------------------------------ remaining_days
\* C22: derived remaining_days.  In every reachable state, every ledger row's
\* remaining_days equals total_days - used_days - pending_days.
C22_RemainingDaysDerived ==
  \A k \in Keys :
    HasBalance(k) =>
      balances[k].RemainingDays =
        balances[k].TotalDays - balances[k].UsedDays - balances[k].PendingDays

\* ------------------------------------------------------ non-negative counters
\* C23: non-negative counters.  In every state reached by CreateLeaveRequest
\* and UpdateLeaveRequest calls from rows with used_days = pending_days = 0,
\* used_days and pending_days of every ledger row are at least 0.
C23_CountersNonNegative ==
  \A k \in Keys :
    HasBalance(k) => balances[k].UsedDays >= 0 /\ balances[k].PendingDays >= 0

\* ------------------------------------------------------ InitializeYearlyBalance
\* leave_types.default_days of each leave type.
DefaultDays(lt) == 3

\* var employeeIDs []uuid.UUID: declared and never filled (the employee service
\* is not queried), so the slice is empty in every call.
InitializeEmployeeIDs == {}

\* tx.Where("organization_id = ?", orgID).Find(&leaveTypes)
LeaveTypesOf(orgID) == {lt \in LeaveTypeIds : LeaveTypeOrg(lt) = orgID}

\* repository.InitializeYearlyBalance(orgID, year), the whole transaction: one
\* tx.Create(balance) per employee of employeeIDs and leave type of the
\* organization; a Create that hits UNIQUE(employee_id, leave_type_id, year)
\* returns its error and rolls the transaction back.
InitializeYearlyBalance(orgID, year) ==
  LET NewKeys == InitializeEmployeeIDs \X LeaveTypesOf(orgID) \X {year}
      Returns(result) ==
        probe' = [op |-> "InitializeYearlyBalance", args |-> <<orgID, year>>,
                  result |-> result]
  IN /\ \A t \in TxIds : ~Active(t)
     /\ IF \E k \in NewKeys : HasBalance(k)
          THEN /\ Returns("duplicate key")
               /\ UNCHANGED balances
          ELSE /\ Returns("ok")
               /\ balances' = [k \in Keys |->
                    IF k \in NewKeys
                      THEN [exists |-> TRUE, TotalDays |-> DefaultDays(k[2]),
                            UsedDays |-> 0, PendingDays |-> 0, RemainingDays |-> 0]
                      ELSE balances[k]]
     /\ UNCHANGED <<requests, tx, outcome, interleaved, calls,
                    history, now, adjustments, atx, leaveTypes, del>>

InitializeNext ==
  \/ Next
  \/ \E orgID \in Organizations, year \in Years : InitializeYearlyBalance(orgID, year)

InitializeSpec == Init /\ [][InitializeNext]_vars

\* C24: yearly initialization and key uniqueness.  A call of
\* InitializeYearlyBalance for an organization and a year in which no key of an
\* employee and a leave type of the organization has a ledger row succeeds and
\* leaves each of these keys with a row of total_days = the leave type's default
\* days and used_days = pending_days = 0; a call in which one of these keys
\* already has a row fails; in both cases the rows that existed keep their
\* total_days, used_days and pending_days.
C24_YearlyInitialization ==
  [][(probe'.op = "InitializeYearlyBalance" /\ probe' # probe) =>
       LET orgID == probe'.args[1]
           year == probe'.args[2]
           OrgKeys == Employees \X LeaveTypesOf(orgID) \X {year}
       IN /\ \A k \in Keys : HasBalance(k) =>
               /\ balances'[k].exists
               /\ balances'[k].TotalDays = balances[k].TotalDays
               /\ balances'[k].UsedDays = balances[k].UsedDays
               /\ balances'[k].PendingDays = balances[k].PendingDays
          /\ (\E k \in OrgKeys : HasBalance(k)) => probe'.result # "ok"
          /\ (\A k \in OrgKeys : ~HasBalance(k)) =>
               /\ probe'.result = "ok"
               /\ \A k \in OrgKeys :
                    /\ balances'[k].exists
                    /\ balances'[k].TotalDays = DefaultDays(k[2])
                    /\ balances'[k].UsedDays = 0
                    /\ balances'[k].PendingDays = 0]_vars

\* ------------------------------------------------------------------- retries
\* C25: idempotence of a retried transition.  An UpdateLeaveRequest call whose
\* target status is the status it finds stored (approve after approve, reject
\* after reject) leaves total_days, used_days and pending_days of every ledger
\* row as they were, whether it succeeds or fails.
C25_RetryIsIdempotent ==
  [][\A t \in TxIds :
       (UpdateInFlight(t) /\ Ends(t) /\ tx[t].oldStatus = tx[t].req.Status)
       => \A k \in Keys :
            /\ balances'[k].TotalDays = balances[k].TotalDays
            /\ balances'[k].UsedDays = balances[k].UsedDays
            /\ balances'[k].PendingDays = balances[k].PendingDays]_vars

\* A request of one day was created and approved, and a second approve call,
\* whose struct carries another start date, has been stored.
C25_Witness ==
  /\ outcome = [op |-> "update", result |-> "ok"]
  /\ calls = [create |-> 1, update |-> 2]
  /\ AllIdle
  /\ requests[1].Status = LeaveStatusApproved
  /\ requests[1].StartDate = MaxDate
  /\ requests[1].Days = 1
  /\ balances[TheKey].UsedDays = 1
  /\ balances[TheKey].PendingDays = 0

\* -------------------------------------------- concurrent duplicate transitions
\* C26: no double-apply under concurrent duplicate transitions.  Of two
\* UpdateLeaveRequest transactions that both read the same request as pending,
\* at most one commits its effect: the transaction that would commit after the
\* stored status has already left pending fails and changes neither the
\* request nor the ledger.
C26_NoDoubleApply ==
  [][\A t \in TxIds :
       (/\ tx[t].pc = "balanceRead2"
        /\ Ends(t)
        /\ tx[t].oldStatus = LeaveStatusPending
        /\ requests[tx[t].id].Status # LeaveStatusPending)
       => /\ outcome'.result # "ok"
          /\ UNCHANGED <<requests, balances>>]_vars

\* ------------------------------------------------------ table-only transitions
\* The targets the transition table lists for a pending request.
TableTargets == {LeaveStatusApproved, LeaveStatusRejected, LeaveStatusCancelled}

\* service.CreateLeaveRequest, begun while no other call is in flight.
TableCreateLeaveRequest(t) == AllIdle /\ CreateLeaveRequest(t)

\* repository.UpdateLeaveRequest, begun while no other call is in flight, of a
\* pending request, with a target of the table; the caller passes the stored
\* employee, leave type, start date and Days.
TableUpdateLeaveRequest(t) ==
  /\ AllIdle
  /\ \E id \in RequestIds, status \in TableTargets :
       /\ requests[id].Status = LeaveStatusPending
       /\ \E approvedBy \in CallerApprovers(id, status) :
            UpdateReadOld(t, id, status, approvedBy,
                          requests[id].Days, requests[id].StartDate)

TableNext ==
  \/ CreateLeaveRequestRejected
  \/ \E id \in RequestIds : UpdateRequestNotFound(id)
  \/ \E t \in TxIds :
       \/ TableCreateLeaveRequest(t)
       \/ CreateReadBalance(t)
       \/ CreateBalanceNotFound(t)
       \/ CreateCommit(t)
       \/ CreateSaveFails(t)
       \/ TableUpdateLeaveRequest(t)
       \/ UpdateReadBalance(t)
       \/ UpdateCommit(t)
       \/ UpdateSaveFails(t)

TableSpec == Init /\ [][TableNext]_vars

\* C27: consistency under table-only transitions.  When calls run one after the
\* other, every status change is pending -> approved, pending -> rejected or
\* pending -> cancelled, and the caller passes the stored employee, leave type,
\* start date and Days, pending_days of every ledger row is the sum of Days of
\* its pending requests and used_days the sum of Days of its approved requests.
C27_TableOnlyConsistency ==
  \A k \in Keys :
    HasBalance(k) =>
      /\ balances[k].PendingDays = SumDays(k, LeaveStatusPending)
      /\ balances[k].UsedDays = SumDays(k, LeaveStatusApproved)

\* One request approved and another still pending on the same ledger row.
C27_Witness ==
  /\ AllIdle
  /\ requests[1].Status = LeaveStatusApproved
  /\ requests[2].Status = LeaveStatusPending
  /\ requests[1].Days = 1
  /\ requests[2].Days = 2
  /\ balances[TheKey].UsedDays = 1
  /\ balances[TheKey].PendingDays = 2

\* ------------------------------------------------------------ frozen day count
\* The day counts a caller can put into the struct it passes to
\* UpdateLeaveRequest: the stored one, or one day more.
CallerDays(id) == {requests[id].Days, requests[id].Days + 1}

\* repository.UpdateLeaveRequest of a stored request with the caller's Days.
UpdateLeaveRequestWithDays(t) ==
  \E id \in RequestIds, status \in Statuses :
    \E approvedBy \in CallerApprovers(id, status), days \in CallerDays(id) :
      UpdateReadOld(t, id, status, approvedBy, days, requests[id].StartDate)

FrozenNext ==
  \/ CreateLeaveRequestRejected
  \/ \E id \in RequestIds : UpdateRequestNotFound(id)
  \/ \E t \in TxIds :
       \/ CreateLeaveRequest(t)
       \/ CreateReadBalance(t)
       \/ CreateBalanceNotFound(t)
       \/ CreateCommit(t)
       \/ CreateSaveFails(t)
       \/ UpdateLeaveRequestWithDays(t)
       \/ UpdateReadBalance(t)
       \/ UpdateCommit(t)
       \/ UpdateSaveFails(t)
       \/ UpdateSameStatusCommit(t)
       \/ UpdateSameStatusFails(t)

FrozenSpec == Init /\ [][FrozenNext]_vars

\* C28: frozen day count.  A stored request's Days is the weekday count of its
\* range computed at creation; no committed UpdateLeaveRequest changes it, and
\* the days a committed transition out of pending moves on the ledger are the
\* stored Days, whatever Days the caller's struct carries.
C28_FrozenDays ==
  [][\A t \in TxIds :
       /\ CreateCommits(t) =>
            requests'[tx[t].id].Days =
              WeekdaysIn(requests'[tx[t].id].StartDate, requests'[tx[t].id].EndDate)
       /\ UpdateCommits(t) =>
            /\ requests'[tx[t].id].Days = requests[tx[t].id].Days
            /\ (ReadsCurrent(t) /\ tx[t].oldStatus = LeaveStatusPending
                 /\ tx[t].req.Status # LeaveStatusPending) =>
                 balances'[TxKey(t)].PendingDays =
                   balances[TxKey(t)].PendingDays - requests[tx[t].id].Days]_vars

\* --------------------------------------------------- independence of ledger keys
\* Every employee has a ledger row for every leave type and year.
KeysInit ==
  /\ balances = [k \in Keys |->
       [exists |-> TRUE, TotalDays |-> InitialTotalDays,
        UsedDays |-> 0, PendingDays |-> 0, RemainingDays |-> InitialTotalDays]]
  /\ requests = [i \in RequestIds |-> NoRequest]
  /\ InitCalls
  /\ InitOthers
  /\ probe = NoProbe

\* Repository transactions begun over a run on these rows.
MaxKeysCalls == 2

KeysCreateLeaveRequest(t) ==
  calls.create + calls.update < MaxKeysCalls /\ CreateLeaveRequest(t)

KeysUpdateLeaveRequest(t) ==
  calls.create + calls.update < MaxKeysCalls /\ UpdateLeaveRequest(t)

KeysNext ==
  \/ CreateLeaveRequestRejected
  \/ \E id \in RequestIds : UpdateRequestNotFound(id)
  \/ \E t \in TxIds :
       \/ KeysCreateLeaveRequest(t)
       \/ CreateReadBalance(t)
       \/ CreateCommit(t)
       \/ CreateSaveFails(t)
       \/ KeysUpdateLeaveRequest(t)
       \/ UpdateReadBalance(t)
       \/ UpdateCommit(t)
       \/ UpdateSaveFails(t)
       \/ UpdateSameStatusCommit(t)
       \/ UpdateSameStatusFails(t)

KeysSpec == KeysInit /\ [][KeysNext]_vars

\* C29: independence of ledger keys.  A step of a CreateLeaveRequest or
\* UpdateLeaveRequest transaction whose request has the key K (employee, leave
\* type, year of start) leaves total_days, used_days and pending_days of every
\* ledger row with another key unchanged, also while a transaction on another
\* key is in flight.
C29_KeysIndependent ==
  [][\A t \in TxIds :
       tx'[t] # tx[t] =>
         \A k \in Keys :
           k # (IF Active(t) THEN TxKey(t) ELSE NoKey) =>
             /\ balances'[k].TotalDays = balances[k].TotalDays
             /\ balances'[k].UsedDays = balances[k].UsedDays
             /\ balances'[k].PendingDays = balances[k].PendingDays]_vars

\* Two creations on the rows of two employees ran interleaved and both
\* reservations are in place, each on its own row.
C29_Witness ==
  /\ AllIdle
  /\ interleaved
  /\ calls = [create |-> 2, update |-> 0]
  /\ requests[1].EmployeeID # requests[2].EmployeeID
  /\ requests[1].Days = 1
  /\ requests[2].Days = 2
  /\ balances[RowKey(1)].PendingDays = 1
  /\ balances[RowKey(2)].PendingDays = 2
  /\ \A k \in Keys \ {RowKey(1), RowKey(2)} : balances[k].PendingDays = 0

\* ------------------------------------------------------- overlap on creation
\* The input passes the validations the service makes: employee and leave type
\* given, range not inverted, leave type of the organization, length within the
\* leave type's maximum.
PassesValidations(in) ==
  /\ in[2] # Nil
  /\ in[3] \in LeaveTypeIds
  /\ LeaveTypeOrg(in[3]) = in[1]
  /\ in[4] <= in[5]
  /\ in[5] - in[4] <= MaxDaysPerRequest(in[3])

\* The inputs that pass them.
ValidCreateInputs == {in \in CreateInputs : PassesValidations(in)}

\* C30: overlap is not enforced on creation.  Whatever requests the table has
\* come to hold, CreateLeaveRequest does not refuse an input that passes its
\* validations because the range shares a day with a pending or approved
\* request of the same employee, and the commit of such a
\* creation stores the request as pending and (its ledger read being current)
\* raises pending_days by its Days.
C30_OverlapNotEnforced ==
  [][/\ requests' # requests =>
          \A in \in ValidCreateInputs :
            (GetOverlappingRequests(in[2], in[4], in[5]) # {})'
            => (CreateError(in[1], in[2], in[3], in[4], in[5]) = Nil)'
     /\ \A t \in TxIds :
          (/\ CreateCommits(t)
           /\ GetOverlappingRequests(tx[t].req.EmployeeID,
                                      tx[t].req.StartDate, tx[t].req.EndDate) # {})
          => /\ requests'[tx[t].id] = tx[t].req
             /\ requests'[tx[t].id].Status = LeaveStatusPending
             /\ ReadsCurrent(t) =>
                  balances'[TxKey(t)].PendingDays =
                    balances[TxKey(t)].PendingDays + tx[t].req.Days]_vars

\* Two pending requests of the same employee cover day 0, both reserved.
C30_Witness ==
  /\ AllIdle
  /\ ~interleaved
  /\ calls = [create |-> 2, update |-> 0]
  /\ outcome = [op |-> "create", result |-> "ok"]
  /\ \A i \in {1, 2} :
       /\ requests[i].EmployeeID = "e1"
       /\ requests[i].Status = LeaveStatusPending
       /\ requests[i].StartDate = 0
       /\ requests[i].Days >= 1
  /\ requests[1].EndDate = 0
  /\ requests[2].EndDate = 1
  /\ balances[TheKey].PendingDays = requests[1].Days + requests[2].Days

\* ------------------------------------------------------------ over-allocation
\* No call of any kind is in flight.
Quiet == AllIdle /\ \A t \in TxIds : ~AdjActive(t)

\* Calls made one after the other: leave request creations and updates, and
\* updates of the adjustment that waits on the first ledger row.
AllocCreateLeaveRequest(t) == Quiet /\ CreateLeaveRequest(t)
AllocUpdateLeaveRequest(t) == Quiet /\ UpdateLeaveRequest(t)
AllocUpdateBalanceAdjustment(t) == Quiet /\ UpdateBalanceAdjustment(t)

AllocNext ==
  \/ CreateLeaveRequestRejected
  \/ \E id \in RequestIds : UpdateRequestNotFound(id)
  \/ \E t \in TxIds :
       \/ AllocCreateLeaveRequest(t)
       \/ CreateReadBalance(t)
       \/ CreateBalanceNotFound(t)
       \/ CreateCommit(t)
       \/ CreateSaveFails(t)
       \/ AllocUpdateLeaveRequest(t)
       \/ UpdateReadBalance(t)
       \/ UpdateBalanceNotFound(t)
       \/ UpdateCommit(t)
       \/ UpdateSaveFails(t)
       \/ UpdateSameStatusCommit(t)
       \/ UpdateSameStatusFails(t)
       \/ AllocUpdateBalanceAdjustment(t)
       \/ UpdateBalanceAdjustmentReadBalance(t)
       \/ UpdateBalanceAdjustmentCommit(t)
       \/ UpdateBalanceAdjustmentSave(t)
       \/ AdjustmentRollback(t)

AllocSpec == MixedInit /\ [][AllocNext]_vars

\* C31: over-allocation is not blocked.  The step in which a reservation, a
\* status transition or an adjustment approval saves the ledger row ends with
\* ok or with an error that does not depend on the counters (a failing save, a
\* missing approver); a CreateLeaveRequest whose ledger read is current commits
\* its reservation also when its Days exceed
\* total_days - used_days - pending_days.
C31_OverAllocationNotBlocked ==
  [][\A t \in TxIds :
       /\ (tx[t].pc = "balanceRead" /\ Ends(t)) =>
            outcome'.result \in {"ok", "save failed"}
       /\ (tx[t].pc = "balanceRead2" /\ Ends(t)) =>
            outcome'.result \in
              {"ok", "save failed", "approved_by is required when status is approved"}
       /\ (atx[t].pc = "balanceRead" /\ atx'[t].pc = "idle") =>
            outcome'.result \in {"ok", "save failed"}
       /\ (CreateCommits(t) /\ ReadsCurrent(t)) =>
            /\ requests'[tx[t].id] = tx[t].req
            /\ balances'[TxKey(t)].PendingDays =
                 balances[TxKey(t)].PendingDays + tx[t].req.Days]_vars

\* Two requests of two days each are reserved on a row of three days.
C31_Witness ==
  /\ AllIdle
  /\ ~interleaved
  /\ outcome = [op |-> "create", result |-> "ok"]
  /\ calls = [create |-> 2, update |-> 0]
  /\ requests[1].Days = 2
  /\ requests[2].Days = 2
  /\ balances[TheKey].PendingDays = 4
  /\ balances[TheKey].UsedDays = 0
  /\ balances[TheKey].UsedDays + balances[TheKey].PendingDays > balances[TheKey].TotalDays

\* ------------------------------------------------------- leave-type ownership
\* C32: leave-type ownership check on creation.  A CreateLeaveRequest(orgID, req)
\* call whose leave type does not exist or belongs to another organization than
\* orgID returns an error, stores no request and changes no ledger row.
C32_LeaveTypeOwnership ==
  [][(/\ probe'.op = "CreateLeaveRequest"
      /\ probe' # probe
      /\ \/ probe'.args[3] \notin LeaveTypeIds
         \/ LeaveTypeOrg(probe'.args[3]) # probe'.args[1])
     => /\ probe'.result \notin {"ok", Nil}
        /\ UNCHANGED <<requests, balances>>]_vars

\* A request of organization o2 for the leave type of o1 was refused.
C32_Witness ==
  /\ probe.op = "CreateLeaveRequest"
  /\ probe.args = <<"o2", "e1", "lt1", 0, 0>>
  /\ probe.result = "leave type not found in organization"
  /\ \A i \in RequestIds : ~HasRequest(i)
  /\ \A k \in Keys : balances[k].PendingDays = 0

\* ------------------------------------------------- adjustments: creation, effects
\* Adjustment row a appears in this step.
AdjustmentCreated(a) == ~HasAdjustment(a) /\ adjustments'[a].Status # Nil

\* C33: adjustment creation has no ledger effect.  The step that stores a new
\* adjustment record (CreateBalanceAdjustment or AdjustLeaveBalance) stores it
\* with status pending and leaves total_days of the referenced ledger row
\* unchanged.
C33_CreationHasNoLedgerEffect ==
  [][\A a \in AdjustmentIds :
       AdjustmentCreated(a) =>
         /\ adjustments'[a].Status = AdjustmentStatusPending
         /\ balances'[adjustments'[a].LeaveBalanceID].TotalDays =
              balances[adjustments'[a].LeaveBalanceID].TotalDays]_vars

\* Transaction t commits the transition of its adjustment from pending to
\* status to.
AdjustmentTransitions(t, to) ==
  /\ UpdateAdjustmentReturns(t)
  /\ outcome'.result = "ok"
  /\ atx[t].oldStatus = AdjustmentStatusPending
  /\ adjustments[atx[t].id].Status = AdjustmentStatusPending
  /\ atx[t].adj.Status = to

\* The ledger row transaction t read is still what is committed.
AdjustmentReadsCurrent(t) ==
  atx[t].pc = "balanceRead" => balances[atx[t].adj.LeaveBalanceID] = atx[t].bal

\* What C34 says of the ledger row in the step that commits an approval (the
\* part on total_days is required when current holds) or a rejection.
AdjustmentEffects(t, current) ==
  LET k == atx[t].adj.LeaveBalanceID
  IN /\ AdjustmentTransitions(t, AdjustmentStatusApproved) =>
          /\ current =>
               balances'[k].TotalDays = balances[k].TotalDays + atx[t].adj.Adjustment
          /\ balances'[k].UsedDays = balances[k].UsedDays
          /\ balances'[k].PendingDays = balances[k].PendingDays
     /\ AdjustmentTransitions(t, AdjustmentStatusRejected) =>
          /\ balances'[k].TotalDays = balances[k].TotalDays
          /\ balances'[k].UsedDays = balances[k].UsedDays
          /\ balances'[k].PendingDays = balances[k].PendingDays

\* C34: adjustment approval and rejection effects.  A committed transition of
\* an adjustment from pending to approved adds its signed delta to total_days of
\* the referenced ledger row and leaves used_days and pending_days unchanged; a
\* committed transition from pending to rejected leaves all three unchanged.
C34_ApprovalAndRejectionEffects ==
  [][\A t \in TxIds : AdjustmentEffects(t, TRUE)]_vars

\* C34 restricted, for total_days, to the approvals whose read of the ledger
\* row is still current.
C34_ApprovalAndRejectionEffectsReadsCurrent ==
  [][\A t \in TxIds : AdjustmentEffects(t, AdjustmentReadsCurrent(t))]_vars

\* ---------------------------------------------------------------------------
\* Validation at the creation of an adjustment.  Nothing between the router
\* and the repository binds a CreateBalanceAdjustmentRequest (the handler
\* AdjustBalance is empty), so the repository is handed whatever delta its
\* caller holds, zero included.
AdjustmentInputs == Deltas \cup {0}

ValidateCreateBalanceAdjustment(t) ==
  \E key \in Keys, delta \in AdjustmentInputs :
    \/ \E status \in CreateStatuses : CreateBalanceAdjustmentInsert(t, key, delta, status)
    \/ CreateBalanceAdjustmentRead(t, key, delta)

ValidateAdjustLeaveBalance(t) ==
  \E key \in Keys, delta \in AdjustmentInputs : AdjustLeaveBalanceRead(t, key, delta)

ValidateNext ==
  \/ CreateBalanceAdjustmentRefused
  \/ \E t \in TxIds :
       \/ ValidateCreateBalanceAdjustment(t)
       \/ CreateBalanceAdjustmentCommit(t)
       \/ ValidateAdjustLeaveBalance(t)
       \/ AdjustLeaveBalanceCommit(t)
       \/ AdjustmentRollback(t)

ValidateSpec == Init /\ [][ValidateNext]_vars

\* The ledger reference of every stored adjustment names an existing row, and
\* a refused creation stores nothing.
LedgerReferenceValidated ==
  /\ outcome'.result = "foreign key violation" => adjustments' = adjustments
  /\ \A a \in AdjustmentIds :
       AdjustmentCreated(a) => HasBalance(adjustments'[a].LeaveBalanceID)

\* C35: creating an adjustment, in any status, whose LeaveBalanceID names no
\* ledger row fails and stores nothing, and no adjustment with delta 0 is ever
\* stored.
C35_CreationValidated ==
  [][/\ LedgerReferenceValidated
     /\ \A a \in AdjustmentIds :
          AdjustmentCreated(a) => adjustments'[a].Adjustment # 0]_vars

\* The part of C35 the foreign key does enforce.
C35_LedgerReferenceValidated == [][LedgerReferenceValidated]_vars

\* ---------------------------------------------------------------------------
\* DeleteLeaveType.  The specifications above delete no leave type: there
\* leaveTypes stays LeaveTypeIds and GetLeaveTypeError reads the whole table.
\* Here the service and the repository are followed statement by statement,
\* next to leave request transactions that run one at a time.
ActiveStatuses == {LeaveStatusPending, LeaveStatusApproved}

\* The rows counted by "leave_type_id = ? AND status IN (pending, approved)".
ActiveLeaveRequests(id) ==
  {i \in RequestIds :
     HasRequest(i) /\ requests[i].LeaveTypeID = id /\ requests[i].Status \in ActiveStatuses}

\* Variant: leave_requests and leave_balances carry no foreign key to
\* leave_types.
ReferencedWithoutForeignKeys(id) == FALSE

\* leave_type_id UUID REFERENCES leave_types(id), on leave_balances and on
\* leave_requests: a committed row of either table that names the leave type.
Referenced(id) ==
  \/ \E k \in Keys : HasBalance(k) /\ k[2] = id
  \/ \E i \in RequestIds : HasRequest(i) /\ requests[i].LeaveTypeID = id

\* A transaction in flight has inserted a request row that names the leave
\* type: it holds the key-share lock that tx.Delete waits for.
InsertInFlight(id) ==
  \E t \in TxIds : Active(t) /\ ~HasRequest(tx[t].id) /\ tx[t].req.LeaveTypeID = id

DeleteFrame ==
  UNCHANGED <<balances, requests, tx, interleaved, calls,
              history, now, adjustments, atx, probe>>

DeleteReturns(result) ==
  /\ del' = IdleDelete
  /\ outcome' = [op |-> "deleteLeaveType", result |-> result]
  /\ UNCHANGED leaveTypes
  /\ DeleteFrame

\* s.GetLeaveType(orgID, id) returns an error: no such row, or another
\* organization's.
DeleteLeaveTypeNotFound(orgID, id) ==
  /\ del = IdleDelete
  /\ \/ id \notin leaveTypes
     \/ GetLeaveTypeError(orgID, id) # Nil
  /\ DeleteReturns(IF id \notin leaveTypes THEN "record not found"
                   ELSE GetLeaveTypeError(orgID, id))

\* s.GetLeaveType(orgID, id) returns the leave type.
DeleteGetLeaveType(orgID, id) ==
  /\ del = IdleDelete
  /\ id \in leaveTypes
  /\ GetLeaveTypeError(orgID, id) = Nil
  /\ del' = [pc |-> "found", org |-> orgID, id |-> id]
  /\ UNCHANGED <<leaveTypes, outcome>>
  /\ DeleteFrame

\* s.leaveRepo.HasActiveLeaveRequests(id), outside any transaction.
DeleteHasActiveLeaveRequests ==
  /\ del.pc = "found"
  /\ IF ActiveLeaveRequests(del.id) # {}
       THEN DeleteReturns("cannot delete leave type with active leave requests")
       ELSE /\ del' = [del EXCEPT !.pc = "checked"]
            /\ UNCHANGED <<leaveTypes, outcome>>
            /\ DeleteFrame

\* repository.DeleteLeaveType: the transaction counts the active requests.
DeleteCount ==
  /\ del.pc = "checked"
  /\ IF ActiveLeaveRequests(del.id) # {}
       THEN DeleteReturns("cannot delete leave type with active requests")
       ELSE /\ del' = [del EXCEPT !.pc = "counted"]
            /\ UNCHANGED <<leaveTypes, outcome>>
            /\ DeleteFrame

\* tx.Delete(&LeaveType{}, "id = ?", id) and the commit: the statement waits
\* for the lock of an insert in flight, and a referencing row makes it fail.
DeleteLeaveTypeRow ==
  /\ del.pc = "counted"
  /\ ~InsertInFlight(del.id)
  /\ IF Referenced(del.id)
       THEN DeleteReturns("foreign key violation")
       ELSE /\ leaveTypes' = leaveTypes \ {del.id}
            /\ del' = IdleDelete
            /\ outcome' = [op |-> "deleteLeaveType", result |-> "ok"]
            /\ DeleteFrame

\* CreateLeaveRequest for a leave type whose row is gone: GetLeaveType finds
\* nothing, or the insert is refused by the foreign key.
CreateLeaveRequestTypeDeleted ==
  /\ \E in \in AcceptedCreateInputs : in[3] \notin leaveTypes
  /\ outcome' = [op |-> "create", result |-> "record not found"]
  /\ UNCHANGED <<balances, requests, tx, interleaved, calls>>
  /\ UNCHANGED others

\* Leave request transactions begun over a run, one at a time.
MaxDeleteCalls == 2

DeleteCreateLeaveRequest(t) ==
  /\ AllIdle
  /\ calls.create + calls.update < MaxDeleteCalls
  /\ \E in \in AcceptedCreateInputs :
       /\ in[3] \in leaveTypes
       /\ CreateLeaveRequestInsert(t, in[1], in[2], in[3], in[4], in[5])

DeleteUpdateLeaveRequest(t) ==
  /\ AllIdle
  /\ calls.create + calls.update < MaxDeleteCalls
  /\ UpdateLeaveRequest(t)

\* Either the first employee has its ledger rows, or there is no ledger row.
DeleteInit ==
  /\ \/ InitBalances
     \/ balances = [k \in Keys |-> NoBalance]
  /\ requests = [i \in RequestIds |-> NoRequest]
  /\ InitCalls
  /\ InitOthers
  /\ probe = NoProbe

DeleteNext ==
  \/ \E orgID \in Organizations, id \in LeaveTypeIds :
       \/ DeleteLeaveTypeNotFound(orgID, id)
       \/ DeleteGetLeaveType(orgID, id)
  \/ DeleteHasActiveLeaveRequests
  \/ DeleteCount
  \/ DeleteLeaveTypeRow
  \/ CreateLeaveRequestTypeDeleted
  \/ \E t \in TxIds :
       \/ DeleteCreateLeaveRequest(t)
       \/ CreateReadBalance(t)
       \/ CreateBalanceNotFound(t)
       \/ CreateCommit(t)
       \/ CreateSaveFails(t)
       \/ DeleteUpdateLeaveRequest(t)
       \/ UpdateReadBalance(t)
       \/ UpdateCommit(t)
       \/ UpdateSaveFails(t)
       \/ UpdateSameStatusCommit(t)
       \/ UpdateSameStatusFails(t)

DeleteSpec == DeleteInit /\ [][DeleteNext]_vars

\* C36: a leave type with a pending or approved request is not deleted, the
\* DeleteLeaveType call that finds one fails and deletes nothing, and at every
\* moment, whatever the interleaving with CreateLeaveRequest, every pending or
\* approved request names a leave type that is still stored.
C36_LeaveTypeInUseNotDeleted ==
  [][/\ \A id \in leaveTypes :
          ActiveLeaveRequests(id) # {} =>
            /\ id \in leaveTypes'
            /\ (del.id = id /\ del' = IdleDelete) =>
                 /\ outcome'.op = "deleteLeaveType"
                 /\ outcome'.result # "ok"
     /\ \A i \in RequestIds :
          (HasRequest(i) /\ requests[i].Status \in ActiveStatuses)' =>
            requests'[i].LeaveTypeID \in leaveTypes']_vars

\* A request was committed after the repository's count found none: the
\* delete statement is about to run with an active request in the table.
C36_Witness ==
  /\ del.pc = "counted"
  /\ ActiveLeaveRequests(del.id) # {}

\* The service's own check refuses the deletion.
C36_RefusedByService ==
  /\ outcome = [op |-> "deleteLeaveType",
                result |-> "cannot delete leave type with active leave requests"]
  /\ \E id \in leaveTypes : ActiveLeaveRequests(id) # {}

\* ---------------------------------------------------------------------------
\* C37: every stored request carries the organization the service was called
\* for, which is the organization of its leave type (the service accepts no
\* other orgID).
C37_StoredOrganization ==
  \A i \in RequestIds :
    HasRequest(i) => requests[i].OrganizationID = LeaveTypeOrg(requests[i].LeaveTypeID)

\* ---------------------------------------------------------------------------
\* The ledger row of a request.  A creation touches only the row keyed by the
\* stored request; an update that commits leaves that key as it was and
\* touches no other row.  Required of the updates for which same holds.
OneLedgerRow(t, same) ==
  LET id == tx[t].id
  IN /\ CreateCommits(t) =>
          \A k \in Keys \ {BalanceKey(requests'[id])} : balances'[k] = balances[k]
     /\ (UpdateCommits(t) /\ same) =>
          /\ BalanceKey(requests'[id]) = RowKey(id)
          /\ \A k \in Keys \ {RowKey(id)} : balances'[k] = balances[k]

\* C38: the ledger row charged at creation and the row credited or debited by
\* every later transition of the request are the same row, the one keyed by
\* the request's employee, leave type and year of start date.
C38_SameLedgerRow == [][\A t \in TxIds : OneLedgerRow(t, TRUE)]_vars

\* The same, for the calls whose struct carries the stored start date.
C38_SameLedgerRowStoredStart ==
  [][\A t \in TxIds :
       OneLedgerRow(t, tx[t].req.StartDate = requests[tx[t].id].StartDate)]_vars
====
